---- MODULE Spec2Model ----
(***************************************************************************)
(* BasicMeanReversionAlgorithm (src/baseline_no_sentiment/main.py): the    *)
(* decision core of a long-only mean-reversion strategy, together with the *)
(* part of the host (bars, order book, portfolio, fills) its handlers read *)
(* and write.                                                              *)
(*                                                                         *)
(* Units.  Time is counted in ticks, TicksPerDay ticks to a calendar day;  *)
(* bars arrive at midnights (Time % TicksPerDay = 0), fills at any tick.   *)
(* Prices are whole price units.  Thresholds (entry, exit, sentiment       *)
(* coefficients) are in hundredths, weights in thousandths, a stop trigger *)
(* in units of 1/AtrMultDen of a price unit.  sd = max(std, 1e-12): on the *)
(* integer price grid the floor is taken exactly when std <= 0, and then   *)
(* z = d / 1e-12 lies beyond every threshold unless d = 0.                 *)
(***************************************************************************)
EXTENDS Integers, Sequences, FiniteSets, TLC

VARIABLES
  Time,           \* self.Time, in ticks
  barDelivered,   \* host: the bar of this midnight has been delivered
  IsWarmingUp,    \* self.IsWarmingUp
  use_sentiment,  \* self.use_sentiment (a parameter of the run)
  sent_gate,      \* self.sent_gate, hundredths (a parameter of the run)
  atr,            \* self.atr.Current.Value (the other indicators are read only by
                  \* OnData, on the bar that has just updated them: see ev.bar)
  qty,            \* self.Portfolio[symbol].Quantity
  orders,         \* host order book: order id -> order
  entryTicket,    \* self.entryTicket (an order id, or None)
  stopTicket,     \* self.stopTicket  (an order id, or None)
  entryBarTime,   \* self.entryBarTime (a time, or NoTime)
  lastExitTime,   \* self.lastExitTime
  ev,             \* what the last handler was given and what it asked the host to do
  exitAt,         \* history: time of the most recent exit (NoTime if none)
  barsSinceEntry, \* history: bars delivered since the last entry submission (-1 if none)
  entryAt,        \* history: Time at which the latest entry order was submitted (NoTime once sold out)
  sz              \* the latest call of _delta_shares_for_target: argument, oracle answer, result

vars == <<Time, barDelivered, IsWarmingUp, use_sentiment, sent_gate, atr, qty,
          orders, entryTicket, stopTicket, entryBarTime, lastExitTime, ev,
          exitAt, barsSinceEntry, entryAt, sz>>

-----------------------------------------------------------------------------
(* Bounds of the model *)
MaxDay       == 5      \* last calendar day explored
MaxOrders    == 4      \* order ids in use at one time
MaxShares    == 2      \* largest quantity the sizing oracle answers

(* Units *)
TicksPerDay == 2       \* a calendar day, in ticks
None        == 0       \* an unset ticket
NoTime      == -1      \* an unset time

(* Parameters of the run (GetParameter).  entry, exit, atr_mult, vol_target   *)
(* and the sentiment coefficients are at their defaults; cooldown and         *)
(* time_stop are set to 1 and 3 days (defaults 3 and 15) so that a full       *)
(* enter / time-stop / cool down / re-enter cycle fits in MaxDay days.        *)
entry        == 200    \* 2.0
exit         == 100    \* 1.0
AtrMultNum   == 5      \* atr_mult = 2.5 = AtrMultNum / AtrMultDen
AtrMultDen   == 2
vol_target   == 10000  \* 0.01, in millionths
cooldown     == 1      \* days
time_stop    == 3
sent_entry_k == 25     \* 0.25
sent_size_k  == 25     \* 0.25
SentScore    == 0      \* s = 0.0: no sentiment source is wired in
FreePortfolioValuePercentage == 10   \* 0.01, in thousandths
Cushion      == 2      \* 0.002, in thousandths
HighWeight   == 950    \* 0.95, in thousandths
DaysSince1900 == 43464 \* datetime(1900,1,1) .. start date 2019-01-01
LastExitInit == -(DaysSince1900 * TicksPerDay)

SAFE_DONE == {"Filled", "Canceled", "Invalid"}

(* Inputs the host may supply *)
Bar(px, sma, std, regime, a) ==
  [px |-> px, sma |-> sma, std |-> std, regime |-> regime, atr |-> a]
Bars == { Bar(95, 100, 2, 90, 2),    \* z = -2.5, bullish
          Bar(95, 100, 2, 96, 2),    \* z = -2.5, not bullish
          Bar(97, 100, 2, 90, 1),    \* z = -1.5, bullish
          Bar(100, 100, 2, 90, 2),   \* z = 0
          Bar(97, 100, 0, 90, 2) }   \* std = 0: sd is the floor, z = -3e12
FillPrices == {100}
LotSizes  == {1, 2}
OracleQty == -1 .. MaxShares
Params    == { <<0, -10>>, <<1, 10>> }   \* <<use_sentiment, sent_gate>>

(* Sentiment knobs a run may be given *)
SentGates == {-10, 0, 10}   \* sent_gate, hundredths
SentKs    == {0, 25, 100}   \* sent_entry_k and sent_size_k, hundredths

(* Inputs of the sizer taken on its own *)
MaxOracle    == 25     \* largest magnitude of an oracle answer given to the sizer
SizerWeights == {-100, 0, 500, 950, 951, 970, 988, 989, 1000, 1200}   \* thousandths
SizerQty     == -MaxOracle .. MaxOracle
SizerLots    == {1, 2, 10}

-----------------------------------------------------------------------------
(* Small helpers *)
Max(a, b) == IF a >= b THEN a ELSE b
Min(a, b) == IF a <= b THEN a ELSE b
Abs(a)    == IF a >= 0 THEN a ELSE -a

NoOrder == [role |-> "none", status |-> "None", qty |-> 0, filled |-> 0, trigger |-> 0]
Ids     == 1 .. MaxOrders
IsOpen(o) == o.status \in {"Submitted", "PartiallyFilled"}
FreeIds(os) == {i \in Ids : os[i].role = "none"}
NewId(os) == CHOOSE i \in FreeIds(os) : \A j \in FreeIds(os) : i <= j

\* a request to the host: op is "cancel", "submit", "liquidate" or "size"
Intent(op, role, id, status, q, trigger) ==
  [op |-> op, role |-> role, id |-> id, status |-> status, qty |-> q, trigger |-> trigger,
   w |-> 0, lot |-> 0]

\* CalculateOrderQuantity(symbol, w) was asked and answered oq; the lot size read was lot
Sizing(w, oq, lot) ==
  [op |-> "size", role |-> "entry", id |-> None, status |-> "None", qty |-> oq, trigger |-> 0,
   w |-> w, lot |-> lot]

\* one call of _delta_shares_for_target: w its argument, target the weight handed
\* to CalculateOrderQuantity, oq the answer, lot the lot size, delta the result
SizerCall(w, target, oq, lot, delta) ==
  [called |-> TRUE, w |-> w, target |-> target, oq |-> oq, lot |-> lot, delta |-> delta]
NoSizing == [called |-> FALSE, w |-> 0, target |-> 0, oq |-> 0, lot |-> 1, delta |-> 0]
\* a call not yet made: the argument, and what the host will answer
SizerInput(w, oq, lot) == [NoSizing EXCEPT !.w = w, !.oq = oq, !.lot = lot]

NoBar == [px |-> 0, sma |-> 0, std |-> 0, regime |-> 0, atr |-> 0]
NoEvent(h) == [handler |-> h, decision |-> "NoAction", log |-> <<>>, bar |-> NoBar,
               id |-> None, role |-> "none",
               fillQty |-> 0, fillPrice |-> 0, status |-> "None"]

-----------------------------------------------------------------------------
(* Signal Evaluator: OnData, lines 65-83 and 103-105 *)

\* px - mu, the numerator of z
ZNum(b) == b.px - b.sma

\* z <= t/100, with z = (px - mu) / max(std, 1e-12)
ZLe(b, t) ==
  IF b.std > 0 THEN ZNum(b) * 100 <= t * b.std
  ELSE ZNum(b) < 0 \/ (ZNum(b) = 0 /\ 0 <= t)

\* z >= t/100
ZGe(b, t) ==
  IF b.std > 0 THEN ZNum(b) * 100 >= t * b.std
  ELSE ZNum(b) > 0 \/ (ZNum(b) = 0 /\ 0 >= t)

\* abs(z) <= t/100
AbsZLe(b, t) == ZLe(b, t) /\ ZGe(b, -t)

Invested(q) == q # 0

\* mutant of InCooldown: the window is open at exactly cooldown days
InCooldown_Strict(now, last) == now - last < cooldown * TicksPerDay

\* (self.Time - self.lastExitTime) <= timedelta(days=self.cooldown)
InCooldown(now, last) == now - last <= cooldown * TicksPerDay

Bullish(b) == b.px > b.regime

\* mutant of GateOk: the gate is strict
GateOk_Strict(us, sg) == IF us # 0 THEN SentScore * 1 > sg ELSE TRUE

\* gate_ok = (s >= self.sent_gate) if self.use_sentiment else True
GateOk(us, sg) == IF us # 0 THEN SentScore * 1 >= sg ELSE TRUE

\* entry_eff, hundredths
EntryEff(us, ek) ==
  IF us # 0
  THEN Min(Max(entry \div 2, (entry * (10000 - ek * SentScore)) \div 10000), 2 * entry)
  ELSE entry

\* (self.Time - (self.entryBarTime or self.Time)).days
BarsInTrade(now, ebt) == (now - (IF ebt # NoTime THEN ebt ELSE now)) \div TicksPerDay

\* mutant of EntrySignal: the regime filter is dropped
EntrySignal_NoRegime(q, b, us, sg, ek, now, last) ==
  /\ ~Invested(q)
  /\ GateOk(us, sg)
  /\ ZLe(b, -EntryEff(us, ek))
  /\ ~InCooldown(now, last)

\* mutant of EntrySignal: the position is not looked at
EntrySignal_WhileInvested(q, b, us, sg, ek, now, last) ==
  /\ Bullish(b)
  /\ GateOk(us, sg)
  /\ ZLe(b, -EntryEff(us, ek))
  /\ ~InCooldown(now, last)

EntrySignal(q, b, us, sg, ek, now, last) ==
  /\ ~Invested(q)
  /\ Bullish(b)
  /\ GateOk(us, sg)
  /\ ZLe(b, -EntryEff(us, ek))
  /\ ~InCooldown(now, last)

ExitSignal(b, now, ebt) == AbsZLe(b, exit) \/ BarsInTrade(now, ebt) >= time_stop

-----------------------------------------------------------------------------
(* Position Sizer: OnData lines 84-95 and _delta_shares_for_target *)

\* realized_vol = std / max(mu, 1e-12), in millionths (mu >= 1 for every bar of Bars)
RealizedVol(b) == (b.std * 1000000) \div b.sma

\* abs(z) / max(entry_eff, 1e-6) clamped to [0.5, 1.5], in thousandths
SignalScale(b, ee) ==
  IF b.std > 0 THEN Min(1500, Max(500, (Abs(ZNum(b)) * 100000) \div (ee * b.std)))
  ELSE IF ZNum(b) = 0 THEN 500 ELSE 1500

\* the weight w handed to _delta_shares_for_target, in thousandths
TargetWeight(b, us, ek, sk) ==
  LET w0 == Max(0, Min(1000, (vol_target * 1000) \div Max(RealizedVol(b), 1)))
      w1 == (w0 * SignalScale(b, EntryEff(us, ek))) \div 1000
      w2 == IF us # 0 THEN (w1 * (10000 + sk * SentScore)) \div 10000 ELSE w1
  IN  Max(0, Min(1000, w2))

\* cap = 1.0 - FreePortfolioValuePercentage - 0.002, in thousandths
WeightCap == 1000 - FreePortfolioValuePercentage - Cushion

\* mutant of CappedWeight: the cap leaves out the 0.002 cushion
CappedWeight_NoCushion(w) == Max(0, Min(1000 - FreePortfolioValuePercentage, w))

\* target_w = max(0.0, min(cap, float(target_w)))
CappedWeight(w) == Max(0, Min(WeightCap, w))

\* mutant of delta_shares_for_target: one floor division for both signs
delta_shares_for_target_Floor(w, oq, lot) ==
  LET q1 == (oq \div lot) * lot
  IN  IF q1 > 0 /\ CappedWeight(w) > HighWeight THEN Max(0, q1 - lot) ELSE q1

\* oq is the answer of CalculateOrderQuantity, lot the symbol's lot size
delta_shares_for_target(w, oq, lot) ==
  LET q1 == IF oq > 0 THEN (oq \div lot) * lot ELSE -(((-oq) \div lot) * lot)
  IN  IF q1 > 0 /\ CappedWeight(w) > HighWeight THEN Max(0, q1 - lot) ELSE q1

-----------------------------------------------------------------------------
(* Order/State Tracker.  A handler is a function of the record                *)
(*   st = [orders, qty, atr, entryTicket, stopTicket, entryBarTime,           *)
(*         lastExitTime, decision, log]                                       *)
(* (the host state it reads and the fields of self it writes); log collects   *)
(* the requests it makes to the host, in order, and decision is the branch    *)
(* OnData took (EnterLong, ExitLong or NoAction).  The host reports every     *)
(* status change of an order through OnOrderEvent, also those the handler     *)
(* itself causes (submission, cancellation).                                  *)

RECURSIVE OnOrderEvent(_, _)

OrderEvent(id, status, price, fq) ==
  [OrderId |-> id, Status |-> status, FillPrice |-> price, FillQuantity |-> fq]

\* OrderTicket.Cancel(): an open order becomes Canceled and the event is delivered
TicketCancel(st, id) ==
  LET o  == st.orders[id]
      s1 == [st EXCEPT !.log = Append(@, Intent("cancel", o.role, id, o.status, o.qty, o.trigger)),
                       !.orders[id].status = IF IsOpen(o) THEN "Canceled" ELSE @]
  IN  IF IsOpen(o) THEN OnOrderEvent(s1, OrderEvent(id, "Canceled", 0, 0)) ELSE s1

\* MarketOnOpenOrder / StopMarketOrder / the market order of Liquidate
SubmitOrder(st, role, q, trigger) ==
  LET id == NewId(st.orders)
      s1 == [st EXCEPT !.log = Append(@, Intent("submit", role, id, "Submitted", q, trigger)),
                       !.orders[id] = [role |-> role, status |-> "Submitted", qty |-> q,
                                       filled |-> 0, trigger |-> trigger]]
  IN  OnOrderEvent(s1, OrderEvent(id, "Submitted", 0, 0))

RECURSIVE CancelOpenOrders(_, _)
CancelOpenOrders(st, ids) ==
  IF ids = {} THEN st
  ELSE LET i == CHOOSE j \in ids : \A k \in ids : j <= k
       IN  CancelOpenOrders(TicketCancel(st, i), ids \ {i})

\* self.Liquidate(symbol): cancels the symbol's open orders, then sells what is held
Liquidate(st) ==
  LET s0 == [st EXCEPT !.log = Append(@, Intent("liquidate", "liq", None, "None", st.qty, 0))]
      s1 == CancelOpenOrders(s0, {i \in Ids : IsOpen(s0.orders[i])})
  IN  IF s1.qty # 0 THEN SubmitOrder(s1, "liq", -s1.qty, 0) ELSE s1

\* stop = px - self.atr_mult * self.atr.Current.Value, in units of 1/AtrMultDen
StopPrice(px, a) == AtrMultDen * px - AtrMultNum * a

TicketLive(st, t) == t # None /\ st.orders[t].status \notin SAFE_DONE

\* mutant of PlaceStop: the stop is sized by the last fill, not by the holdings
PlaceStop_LastFill(st, oe) ==
  IF st.entryTicket # None /\ oe.OrderId = st.entryTicket /\ oe.Status = "Filled"
  THEN IF st.qty > 0
       THEN LET stop == StopPrice(oe.FillPrice, st.atr)
                s1   == IF TicketLive(st, st.stopTicket) THEN TicketCancel(st, st.stopTicket) ELSE st
                id   == NewId(s1.orders)
                s2   == SubmitOrder(s1, "stop", -oe.FillQuantity, stop)
            IN  [s2 EXCEPT !.stopTicket = id]
       ELSE st
  ELSE st

\* lines 115-122
PlaceStop(st, oe) ==
  IF st.entryTicket # None /\ oe.OrderId = st.entryTicket /\ oe.Status = "Filled"
  THEN IF st.qty > 0
       THEN LET stop == StopPrice(oe.FillPrice, st.atr)
                s1   == IF TicketLive(st, st.stopTicket) THEN TicketCancel(st, st.stopTicket) ELSE st
                id   == NewId(s1.orders)
                s2   == SubmitOrder(s1, "stop", -s1.qty, stop)
            IN  [s2 EXCEPT !.stopTicket = id]
       ELSE st
  ELSE st

\* mutant of TrackExit: the entry time survives the exit
TrackExit_KeepEntryTime(st, oe) ==
  IF oe.Status = "Filled" /\ oe.FillQuantity < 0 /\ st.qty = 0
  THEN [st EXCEPT !.lastExitTime = Time]
  ELSE st

\* lines 124-127
TrackExit(st, oe) ==
  IF oe.Status = "Filled" /\ oe.FillQuantity < 0 /\ st.qty = 0
  THEN [st EXCEPT !.lastExitTime = Time, !.entryBarTime = NoTime]
  ELSE st

OnOrderEvent(st, oe) == TrackExit(PlaceStop(st, oe), oe)

\* mutant of exit_and_cancel_stop: sells with a plain market order, the stop stays
exit_and_cancel_stop_MarketSell(st) ==
  LET s3 == IF st.qty # 0 THEN SubmitOrder(st, "liq", -st.qty, 0) ELSE st
  IN  [s3 EXCEPT !.stopTicket = None, !.lastExitTime = Time, !.entryBarTime = NoTime]

\* mutant of exit_and_cancel_stop: cancels whatever the status of the stop
exit_and_cancel_stop_AlwaysCancel(st) ==
  LET s1 == IF st.stopTicket # None THEN TicketCancel(st, st.stopTicket) ELSE st
      s2 == [s1 EXCEPT !.stopTicket = None]
      s3 == Liquidate(s2)
  IN  [s3 EXCEPT !.lastExitTime = Time, !.entryBarTime = NoTime]

\* lines 130-136
exit_and_cancel_stop(st) ==
  LET s1 == IF TicketLive(st, st.stopTicket) THEN TicketCancel(st, st.stopTicket) ELSE st
      s2 == [s1 EXCEPT !.stopTicket = None]
      s3 == Liquidate(s2)
  IN  [s3 EXCEPT !.lastExitTime = Time, !.entryBarTime = NoTime]

\* mutant of EnterLong: the earlier entry order is left working
EnterLong_NoCancel(st, delta) ==
  LET id == NewId(st.orders)
      s2 == SubmitOrder(st, "entry", delta, 0)
  IN  [s2 EXCEPT !.entryTicket = id, !.entryBarTime = Time]

\* lines 96-100
EnterLong(st, delta) ==
  LET s1 == IF TicketLive(st, st.entryTicket) THEN TicketCancel(st, st.entryTicket) ELSE st
      id == NewId(s1.orders)
      s2 == SubmitOrder(s1, "entry", delta, 0)
  IN  [s2 EXCEPT !.entryTicket = id, !.entryBarTime = Time]

\* mutant of OnDataCore: the order goes out whatever the sign of delta
OnDataCore_NoDeltaCheck(st, b, oq, lot, us, sg, ek, sk) ==
  IF EntrySignal(st.qty, b, us, sg, ek, Time, st.lastExitTime)
  THEN LET w     == TargetWeight(b, us, ek, sk)
           delta == delta_shares_for_target(w, oq, lot)
           s1    == [st EXCEPT !.log = Append(@, Sizing(CappedWeight(w), oq, lot))]
       IN  EnterLong([s1 EXCEPT !.decision = "EnterLong"], delta)
  ELSE IF Invested(st.qty)
       THEN IF ExitSignal(b, Time, st.entryBarTime)
            THEN exit_and_cancel_stop([st EXCEPT !.decision = "ExitLong"])
            ELSE st
       ELSE st

\* mutant of OnDataCore: the exit test comes first and the entry test is an `if`
\* of its own that does not look at the position
OnDataCore_ExitThenEntry(st, b, oq, lot, us, sg, ek, sk) ==
  LET s0 == IF Invested(st.qty) /\ ExitSignal(b, Time, st.entryBarTime)
            THEN exit_and_cancel_stop([st EXCEPT !.decision = "ExitLong"])
            ELSE st
  IN  IF EntrySignal(0, b, us, sg, ek, Time, st.lastExitTime)
      THEN LET w     == TargetWeight(b, us, ek, sk)
               delta == delta_shares_for_target(w, oq, lot)
               s1    == [s0 EXCEPT !.log = Append(@, Sizing(CappedWeight(w), oq, lot))]
           IN  IF delta > 0 THEN EnterLong([s1 EXCEPT !.decision = "EnterLong"], delta) ELSE s1
      ELSE s0

\* OnData, after the early return of lines 61-63; b holds the indicators' current values
OnDataCore(st, b, oq, lot, us, sg, ek, sk) ==
  IF EntrySignal(st.qty, b, us, sg, ek, Time, st.lastExitTime)
  THEN LET w     == TargetWeight(b, us, ek, sk)
           delta == delta_shares_for_target(w, oq, lot)
           s1    == [st EXCEPT !.log = Append(@, Sizing(CappedWeight(w), oq, lot))]
       IN  IF delta > 0 THEN EnterLong([s1 EXCEPT !.decision = "EnterLong"], delta) ELSE s1
  ELSE IF Invested(st.qty)
       THEN IF ExitSignal(b, Time, st.entryBarTime)
            THEN exit_and_cancel_stop([st EXCEPT !.decision = "ExitLong"])
            ELSE st
       ELSE st

\* mutant of OnDataHandler: warm-up is not looked at
OnDataHandler_NoWarmUpCheck(st, hasBar, b, oq, lot) ==
  IF ~hasBar THEN st
  ELSE OnDataCore(st, b, oq, lot, use_sentiment, sent_gate, sent_entry_k, sent_size_k)

\* lines 60-106
OnDataHandler(st, hasBar, b, oq, lot) ==
  IF ~hasBar \/ IsWarmingUp THEN st
  ELSE OnDataCore(st, b, oq, lot, use_sentiment, sent_gate, sent_entry_k, sent_size_k)

-----------------------------------------------------------------------------
(* The state machine *)

Snapshot(os, q, a) ==
  [orders |-> os, qty |-> q, atr |-> a, entryTicket |-> entryTicket,
   stopTicket |-> stopTicket, entryBarTime |-> entryBarTime,
   lastExitTime |-> lastExitTime, decision |-> "NoAction", log |-> <<>>]

\* the host forgets finished orders no ticket refers to (their ids play no further part)
Forget(st) ==
  [i \in Ids |-> IF st.orders[i].status \in SAFE_DONE /\ i \notin {st.entryTicket, st.stopTicket}
                 THEN NoOrder ELSE st.orders[i]]

Commit(st) ==
  /\ orders' = Forget(st)
  /\ entryTicket' = st.entryTicket
  /\ stopTicket' = st.stopTicket
  /\ entryBarTime' = st.entryBarTime
  /\ lastExitTime' = st.lastExitTime

Has(log, op, role) == \E i \in 1 .. Len(log) : log[i].op = op /\ log[i].role = role

InitBase ==
  /\ Time = 0
  /\ barDelivered = FALSE
  /\ IsWarmingUp = TRUE
  /\ \E p \in Params : use_sentiment = p[1] /\ sent_gate = p[2]
  /\ atr \in {b.atr : b \in Bars}
  /\ qty = 0
  /\ orders = [i \in Ids |-> NoOrder]
  /\ entryTicket = None
  /\ stopTicket = None
  /\ entryBarTime = NoTime
  /\ lastExitTime = LastExitInit
  /\ ev = NoEvent("Initialize")
  /\ exitAt = NoTime
  /\ barsSinceEntry = -1
  /\ entryAt = NoTime

Init == InitBase /\ sz = NoSizing

\* the host's clock moves on (Time 0 is the midnight at which warm-up ends)
AdvanceTime ==
  /\ Time < MaxDay * TicksPerDay
  /\ ~IsWarmingUp
  /\ Time' = Time + 1
  /\ barDelivered' = FALSE
  /\ ev' = NoEvent("Tick")
  /\ UNCHANGED <<IsWarmingUp, use_sentiment, sent_gate, atr, qty, orders, entryTicket,
                 stopTicket, entryBarTime, lastExitTime, exitAt, barsSinceEntry, entryAt, sz>>

\* the warm-up period ends
EndWarmUp ==
  /\ IsWarmingUp
  /\ IsWarmingUp' = FALSE
  /\ ev' = NoEvent("EndWarmUp")
  /\ UNCHANGED <<Time, barDelivered, use_sentiment, sent_gate, atr, qty, orders, entryTicket,
                 stopTicket, entryBarTime, lastExitTime, exitAt, barsSinceEntry, entryAt, sz>>

\* the slice of a midnight carries a daily bar: the indicators take its values,
\* then OnData runs
OnData(b, oq, lot) ==
  /\ Time % TicksPerDay = 0
  /\ ~barDelivered
  /\ FreeIds(orders) # {}
  /\ \E st \in {OnDataHandler(Snapshot(orders, qty, b.atr), TRUE, b, oq, lot)} :
         /\ Commit(st)
         /\ ev' = [NoEvent("OnData") EXCEPT !.decision = st.decision, !.log = st.log,
                                            !.bar = b]
         /\ exitAt' = IF st.decision = "ExitLong" THEN Time ELSE exitAt
         /\ barsSinceEntry' = IF Has(st.log, "submit", "entry") THEN 0
                              ELSE IF barsSinceEntry >= 0 THEN barsSinceEntry + 1
                              ELSE barsSinceEntry
         /\ entryAt' = IF Has(st.log, "submit", "entry") THEN Time ELSE entryAt
  /\ atr' = b.atr
  /\ barDelivered' = TRUE
  /\ UNCHANGED <<Time, IsWarmingUp, use_sentiment, sent_gate, qty, sz>>

\* the slice of a midnight carries no bar of the symbol
OnDataNoBar ==
  /\ Time % TicksPerDay = 0
  /\ ~barDelivered
  /\ \E st \in {OnDataHandler(Snapshot(orders, qty, atr), FALSE, NoBar, 0, 1)} :
         /\ Commit(st)
         /\ ev' = [NoEvent("OnDataNoBar") EXCEPT !.log = st.log]
  /\ barDelivered' = TRUE
  /\ UNCHANGED <<Time, IsWarmingUp, use_sentiment, sent_gate, atr, qty, exitAt, barsSinceEntry, entryAt, sz>>

\* the host fills f shares of open order id at price px; the portfolio is updated
\* before the event is delivered
Fill(id, f, px) ==
  /\ IsOpen(orders[id])
  /\ FreeIds(orders) # {}
  /\ f \in 1 .. Abs(orders[id].qty - orders[id].filled)
  /\ LET o    == orders[id]
         fq   == IF o.qty > 0 THEN f ELSE -f
         done == o.filled + fq = o.qty
         o2   == [o EXCEPT !.filled = @ + fq,
                           !.status = IF done THEN "Filled" ELSE "PartiallyFilled"]
         q2   == qty + fq
     IN  \E st \in {OnOrderEvent(Snapshot([orders EXCEPT ![id] = o2], q2, atr),
                                  OrderEvent(id, o2.status, px, fq))} :
         /\ qty' = q2
         /\ Commit(st)
         /\ ev' = [NoEvent("OnOrderEvent") EXCEPT !.log = st.log, !.id = id, !.role = o.role,
                                                   !.fillQty = fq,
                                                   !.fillPrice = px, !.status = o2.status]
         /\ exitAt' = IF fq < 0 /\ q2 = 0 THEN Time ELSE exitAt
         /\ barsSinceEntry' = IF fq < 0 /\ q2 = 0 THEN -1 ELSE barsSinceEntry
         /\ entryAt' = IF fq < 0 /\ q2 = 0 THEN NoTime ELSE entryAt
  /\ UNCHANGED <<Time, barDelivered, IsWarmingUp, use_sentiment, sent_gate, atr, sz>>

\* the host rejects a submitted order
Reject(id) ==
  /\ orders[id].status = "Submitted"
  /\ \E st \in {OnOrderEvent(Snapshot([orders EXCEPT ![id].status = "Invalid"], qty, atr),
                               OrderEvent(id, "Invalid", 0, 0))} :
         /\ Commit(st)
         /\ ev' = [NoEvent("OnOrderEvent") EXCEPT !.log = st.log, !.id = id,
                                                   !.role = orders[id].role,
                                                   !.status = "Invalid"]
  /\ UNCHANGED <<Time, barDelivered, IsWarmingUp, use_sentiment, sent_gate, atr, qty,
                 exitAt, barsSinceEntry, entryAt, sz>>

Next ==
  \/ AdvanceTime
  \/ EndWarmUp
  \/ \E b \in Bars, oq \in OracleQty, lot \in LotSizes : OnData(b, oq, lot)
  \/ OnDataNoBar
  \/ \E id \in Ids, f \in 1 .. MaxShares, px \in FillPrices : Fill(id, f, px)
  \/ \E id \in Ids : Reject(id)

Spec == Init /\ [][Next]_vars

\* the sizer's inputs: an argument w for a direct call, the oracle's answer, the lot size
SizerInit ==
  /\ InitBase
  /\ \E w \in SizerWeights, oq \in SizerQty, lot \in SizerLots : sz = SizerInput(w, oq, lot)

\* _delta_shares_for_target(sz.w) is called on its own
SizeCall ==
  /\ ~sz.called
  /\ sz' = SizerCall(sz.w, CappedWeight(sz.w), sz.oq, sz.lot,
                     delta_shares_for_target(sz.w, sz.oq, sz.lot))
  /\ ev' = NoEvent("delta_shares_for_target")
  /\ UNCHANGED <<Time, barDelivered, IsWarmingUp, use_sentiment, sent_gate, atr, qty, orders,
                 entryTicket, stopTicket, entryBarTime, lastExitTime, exitAt, barsSinceEntry,
                 entryAt>>

\* lines 85-95: the weight is computed from the indicators of bar b, then sized
SizeBar(b) ==
  /\ ~sz.called
  /\ LET w == TargetWeight(b, use_sentiment, sent_entry_k, sent_size_k)
     IN  sz' = SizerCall(w, CappedWeight(w), sz.oq, sz.lot,
                         delta_shares_for_target(w, sz.oq, sz.lot))
  /\ ev' = [NoEvent("Sizer") EXCEPT !.bar = b]
  /\ UNCHANGED <<Time, barDelivered, IsWarmingUp, use_sentiment, sent_gate, atr, qty, orders,
                 entryTicket, stopTicket, entryBarTime, lastExitTime, exitAt, barsSinceEntry,
                 entryAt>>

SizerNext ==
  \/ SizeCall
  \/ \E b \in Bars : SizeBar(b)

\* the Position Sizer on its own, over every input of the bounded sets
SpecSizer == SizerInit /\ [][SizerNext]_vars

TypeOK ==
  /\ Time \in 0 .. MaxDay * TicksPerDay
  /\ qty \in -MaxShares .. MaxShares
  /\ entryTicket \in Ids \cup {None}
  /\ stopTicket \in Ids \cup {None}
  /\ FreeIds(orders) # {}

-----------------------------------------------------------------------------
(* Properties *)

LiveOrders(role) == {i \in Ids : orders[i].role = role /\ IsOpen(orders[i])}
Submits(log, role) == {i \in 1 .. Len(log) : log[i].op = "submit" /\ log[i].role = role}
CooldownTicks == cooldown * TicksPerDay
LiveBar == ev.handler = "OnData" /\ ~IsWarmingUp
SellToZero == ev.handler = "OnOrderEvent" /\ ev.fillQty < 0 /\ qty = 0

\* C1: after an exit at time T (an ExitLong decision, or a sell fill that leaves
\* the held quantity at exactly zero), no bar at a time t with t - T <= cooldown
\* days submits an entry order.
C1_NoEntryInCooldown ==
  (ev.handler = "OnData" /\ Has(ev.log, "submit", "entry"))
    => (exitAt = NoTime \/ Time - exitAt > CooldownTicks)

\* a bar inside the window, flat, bullish and oversold, that submits nothing
C1_Witness ==
  /\ LiveBar
  /\ exitAt # NoTime /\ Time - exitAt <= CooldownTicks
  /\ qty = 0 /\ ev.bar.px > ev.bar.regime /\ ZLe(ev.bar, -entry)
  /\ use_sentiment = 0
  /\ ev.log = <<>>

\* the conditions of an entry decision, on the state OnData is called in and
\* the bar b it is given
C2_Conditions(b) ==
  /\ qty = 0
  /\ b.px > b.regime
  /\ (use_sentiment # 0 => SentScore >= sent_gate)
  /\ ZLe(b, -EntryEff(use_sentiment, sent_entry_k))
  /\ ~(Time - lastExitTime <= CooldownTicks)

\* the share delta the sizer returned on the bar whose requests are log
C2_DeltaPositive(log) ==
  \E i \in 1 .. Len(log) :
    /\ log[i].op = "size"
    /\ delta_shares_for_target(log[i].w, log[i].qty, log[i].lot) > 0

\* C2 (as claimed): on every bar after warm-up an entry order is submitted iff
\* not invested, bullish, gate_ok, z <= -entry_eff and not in cooldown.
C2_Original ==
  [][(ev'.handler = "OnData" /\ ~IsWarmingUp)
       => (Has(ev'.log, "submit", "entry") <=> C2_Conditions(ev'.bar))]_vars

\* C2 (amended): ... iff those conditions hold and the share delta the sizer
\* returns is > 0.
C2_EntryIff ==
  [][(ev'.handler = "OnData" /\ ~IsWarmingUp)
       => (Has(ev'.log, "submit", "entry")
             <=> (C2_Conditions(ev'.bar) /\ C2_DeltaPositive(ev'.log)))]_vars

\* Scenario A: z = -2.5, bullish, flat, not in cooldown: an entry order goes out
C2_Witness ==
  /\ LiveBar
  /\ ev.bar.px = 95 /\ ev.bar.sma = 100 /\ ev.bar.std = 2
  /\ Has(ev.log, "submit", "entry")

\* bars elapsed since the entry was recorded, on the bar being delivered
C3_BarsElapsed == IF barsSinceEntry >= 0 THEN barsSinceEntry + 1 ELSE 0

\* C3: on every bar after warm-up the exit fires iff invested and (|z| <= exit
\* or the number of bars elapsed since the entry was recorded >= time_stop).
C3_ExitIff ==
  [][(ev'.handler = "OnData" /\ ~IsWarmingUp)
       => (Has(ev'.log, "liquidate", "liq")
             <=> (qty # 0 /\ (AbsZLe(ev'.bar, exit) \/ C3_BarsElapsed >= time_stop)))]_vars

\* C4: at most one entry order and at most one stop order is non-terminal.
C4_OneLivePerRole ==
  /\ Cardinality(LiveOrders("entry")) <= 1
  /\ Cardinality(LiveOrders("stop")) <= 1

\* an entry order replaces one that was still working
C4_Witness ==
  /\ LiveBar
  /\ Has(ev.log, "cancel", "entry")
  /\ Has(ev.log, "submit", "entry")
  /\ Cardinality(LiveOrders("entry")) = 1

\* C5: every entry order is submitted in a state where the held quantity is zero.
C5_NoEntryWhileInvested ==
  (ev.handler = "OnData" /\ Has(ev.log, "submit", "entry")) => qty = 0

\* an invested bar that is bullish, oversold and out of cooldown submits no entry
C5_Witness ==
  /\ LiveBar
  /\ qty > 0
  /\ ev.bar.px > ev.bar.regime /\ ZLe(ev.bar, -entry) /\ use_sentiment = 0
  /\ Time - lastExitTime > CooldownTicks
  /\ ~Has(ev.log, "submit", "entry")

EntryFilled ==
  /\ ev.handler = "OnOrderEvent" /\ ev.status = "Filled"
  /\ entryTicket # None /\ ev.id = entryTicket

\* C6: when the entry order's Filled event leaves a quantity > 0, one stop order
\* goes out, for minus the whole held quantity, triggered at
\* fill_price - atr_mult * ATR; when it does not, none goes out.
C6_StopOnEntryFill ==
  EntryFilled =>
    IF qty > 0
    THEN /\ Cardinality(Submits(ev.log, "stop")) = 1
         /\ \A i \in Submits(ev.log, "stop") :
              /\ ev.log[i].qty = -qty
              /\ ev.log[i].trigger = AtrMultDen * ev.fillPrice - AtrMultNum * atr
    ELSE Submits(ev.log, "stop") = {}

\* Scenario C: fill at 100, ATR 2, atr_mult 2.5: the trigger is 95 (190 halves);
\* the entry was filled in two parts and the stop covers both
C6_Witness ==
  /\ EntryFilled
  /\ ev.fillPrice = 100 /\ atr = 2
  /\ qty = 2 /\ ev.fillQty = 1
  /\ \E i \in Submits(ev.log, "stop") : ev.log[i].trigger = 190 /\ ev.log[i].qty = -2

\* C7: an ExitLong decision and a Filled sell that leaves the quantity at zero
\* set lastExitTime to the current time and clear entryBarTime; nothing else
\* changes lastExitTime.
C7_ExitTimes ==
  [][LET exited == \/ ev'.handler = "OnData" /\ ev'.decision = "ExitLong"
                   \/ /\ ev'.handler = "OnOrderEvent" /\ ev'.status = "Filled"
                      /\ ev'.fillQty < 0 /\ qty' = 0
     IN  /\ exited => (lastExitTime' = Time' /\ entryBarTime' = NoTime)
         /\ lastExitTime' # lastExitTime => exited]_vars

\* a stop-loss fill closes the position, later than the entry bar
C7_Witness ==
  /\ SellToZero /\ ev.role = "stop" /\ ev.status = "Filled"
  /\ lastExitTime = Time /\ entryBarTime = NoTime
  /\ Time % TicksPerDay # 0

\* C8: after an ExitLong decision, and after a sell fill that leaves the
\* quantity at zero, no stop order is non-terminal.
C8_NoLiveStopAfterExit ==
  ((ev.handler = "OnData" /\ ev.decision = "ExitLong") \/ SellToZero)
    => LiveOrders("stop") = {}

\* the ExitLong decision found the stop working and canceled it
C8_Witness ==
  /\ ev.handler = "OnData" /\ ev.decision = "ExitLong"
  /\ Has(ev.log, "cancel", "stop")
  /\ LiveOrders("stop") = {}

\* C9: Cancel is never invoked on an order that is Filled, Canceled or Invalid.
C9_NoCancelOfTerminal ==
  \A i \in 1 .. Len(ev.log) : ev.log[i].op = "cancel" => ev.log[i].status \notin SAFE_DONE

\* an entry after an earlier trade: the old entry ticket is finished and is
\* not canceled again
C9_Witness ==
  /\ LiveBar
  /\ exitAt # NoTime
  /\ Has(ev.log, "submit", "entry")
  /\ ~Has(ev.log, "cancel", "entry")

\* C10: the held quantity is never negative and every entry order submitted
\* has a quantity > 0.
C10_LongOnly ==
  /\ qty >= 0
  /\ \A i \in Submits(ev.log, "entry") : ev.log[i].qty > 0

\* a liquidation sells out, in two fills, a position that a stop had protected
C10_Witness ==
  /\ SellToZero /\ ev.role = "liq" /\ ev.fillQty = -1
  /\ entryTicket # None /\ orders[entryTicket].qty = 2

\* C11: no single OnData call both submits an entry order and liquidates.
C11_EntryExitExclusive ==
  ev.handler \in {"OnData", "OnDataNoBar"}
    => ~(Has(ev.log, "submit", "entry") /\ Has(ev.log, "liquidate", "liq"))

\* a bar that is bullish and oversold finds a position whose time stop is due:
\* the call liquidates and submits no entry
C11_Witness ==
  /\ LiveBar
  /\ ev.bar.px > ev.bar.regime /\ ZLe(ev.bar, -entry)
  /\ use_sentiment = 0
  /\ Has(ev.log, "liquidate", "liq")
  /\ ~Has(ev.log, "submit", "entry")

\* C12: the target weight handed to the host's sizing oracle is always within
\* [0, 1 - free_cash_fraction - 0.002], whatever weight was asked for.
C12_TargetWithinCap ==
  sz.called => (0 <= sz.target /\ sz.target <= 1000 - FreePortfolioValuePercentage - Cushion)

\* a bar of zero volatility asks for the whole portfolio; the oracle is asked for the cap
C12_Witness ==
  /\ sz.called /\ ev.handler = "Sizer"
  /\ ev.bar.std = 0
  /\ sz.w = 1000
  /\ sz.target = 988

\* q rounded toward zero to a multiple of lot
RoundedToLot(q, lot) == IF q >= 0 THEN q - (q % lot) ELSE -((-q) - ((-q) % lot))

\* C13 (as claimed): for every oracle quantity q and lot size the sizer returns
\* q rounded toward zero to a multiple of the lot, and one lot less than that
\* whenever the capped target weight is above 0.95.
C13_Original ==
  sz.called =>
    sz.delta = IF sz.target > HighWeight
               THEN RoundedToLot(sz.oq, sz.lot) - sz.lot
               ELSE RoundedToLot(sz.oq, sz.lot)

\* C13 (amended): the sizer returns q rounded toward zero to a multiple of the
\* lot, and one lot less than that when the capped target weight is above 0.95
\* and the rounded quantity is positive.
C13_LotRounding ==
  sz.called =>
    sz.delta = IF sz.target > HighWeight /\ RoundedToLot(sz.oq, sz.lot) > 0
               THEN RoundedToLot(sz.oq, sz.lot) - sz.lot
               ELSE RoundedToLot(sz.oq, sz.lot)

\* target 0.97, lot 10, oracle answer 25: rounded to 20, returned 10
C13_Witness ==
  /\ sz.called /\ ev.handler = "delta_shares_for_target"
  /\ sz.w = 970 /\ sz.lot = 10 /\ sz.oq = 25
  /\ sz.delta = 10

\* C14: for every target weight and every quantity the sizing oracle may return,
\* the value returned by _delta_shares_for_target is >= 0.
C14_DeltaNonNegative == sz.called => sz.delta >= 0

\* Lines 74-80 and 90-93 are all that reads the sentiment knobs.  On the state
\* and the bar of this OnData step, a run with sentiment enabled, a gate of
\* gates, any coefficients of SentKs and s = 0 passes the entry test exactly if
\* this step did (a step that passes it asks the oracle), asks for the same
\* weight, and gets the same order out of the same answer.
SameAsSentimentRun(gates) ==
  LET sized == {i \in 1 .. Len(ev'.log) : ev'.log[i].op = "size"}
  IN  /\ \A sg \in gates, ek \in SentKs :
            EntrySignal(qty, ev'.bar, 1, sg, ek, Time, lastExitTime) <=> sized # {}
      /\ \A ek \in SentKs, sk \in SentKs : \A i \in sized :
            LET w == TargetWeight(ev'.bar, 1, ek, sk)
                d == delta_shares_for_target(w, ev'.log[i].qty, ev'.log[i].lot)
            IN  /\ ev'.log[i].w = CappedWeight(w)
                /\ (d > 0) <=> (ev'.decision = "EnterLong")
                /\ d > 0 => \E j \in Submits(ev'.log, "entry") : ev'.log[j].qty = d

\* C15 (as claimed): a run with use_sentiment = 0 decides and sizes exactly as
\* the same run with sentiment enabled, any sent_gate, sent_entry_k and
\* sent_size_k, and the score s at 0.
C15_Original ==
  [][(ev'.handler = "OnData" /\ ~IsWarmingUp /\ use_sentiment = 0)
       => SameAsSentimentRun(SentGates)]_vars

\* C15 (amended): the same, for every sent_gate <= 0.
C15_SentimentNoOp ==
  [][(ev'.handler = "OnData" /\ ~IsWarmingUp /\ use_sentiment = 0)
       => SameAsSentimentRun({sg \in SentGates : sg <= 0})]_vars

\* the run without sentiment enters, with a weight scaled by the signal strength
C15_Witness ==
  /\ LiveBar /\ use_sentiment = 0
  /\ ev.decision = "EnterLong"
  /\ \E i \in 1 .. Len(ev.log) : ev.log[i].op = "size" /\ ev.log[i].w = 625
  /\ entryBarTime = Time

\* the OnData decision evaluated once more, on the current state and the bar
\* just handled
ReEvaluated ==
  OnDataCore(Snapshot(orders, qty, atr), ev.bar, 0, 1,
             use_sentiment, sent_gate, sent_entry_k, sent_size_k)

Liquidations(log) == {i \in 1 .. Len(log) : log[i].op = "liquidate"}

\* C16: on a bar where both exit conditions hold (|z| <= exit and time stop
\* reached) the exit fires exactly once, and re-evaluating it on the state it
\* produced issues no further liquidation or cancel and leaves entryTicket,
\* stopTicket, entryBarTime and lastExitTime unchanged.
C16_ExitOnceIdempotent ==
  [][(/\ ev'.handler = "OnData" /\ ~IsWarmingUp /\ Invested(qty)
      /\ AbsZLe(ev'.bar, exit)
      /\ BarsInTrade(Time, entryBarTime) >= time_stop)
       => /\ Cardinality(Liquidations(ev'.log)) = 1
          /\ ReEvaluated'.log = <<>>
          /\ ReEvaluated'.entryTicket = entryTicket'
          /\ ReEvaluated'.stopTicket = stopTicket'
          /\ ReEvaluated'.entryBarTime = entryBarTime'
          /\ ReEvaluated'.lastExitTime = lastExitTime']_vars

\* C18: while the host is warming up, or when the slice has no bar of the
\* symbol, OnData submits, cancels and liquidates nothing and leaves
\* entryTicket, stopTicket, entryBarTime and lastExitTime unchanged.
C18_NoActionUntilReady ==
  [][(ev'.handler = "OnDataNoBar" \/ (ev'.handler = "OnData" /\ IsWarmingUp))
       => /\ ev'.log = <<>>
          /\ ev'.decision = "NoAction"
          /\ UNCHANGED <<entryTicket, stopTicket, entryBarTime, lastExitTime>>]_vars

\* a warm-up bar that is bullish and oversold, with the sentiment gate off:
\* nothing is asked of the host
C18_Witness ==
  /\ ev.handler = "OnData" /\ IsWarmingUp
  /\ ev.bar.px > ev.bar.regime /\ ZLe(ev.bar, -entry)
  /\ use_sentiment = 0
  /\ ev.log = <<>>
  /\ entryTicket = None /\ entryBarTime = NoTime

\* C19: whenever the held quantity is positive and no entry order is still
\* non-terminal, some non-terminal stop order closes the whole held position
\* (what is left of it to fill is minus the held quantity).
C19_StopCoversPosition ==
  (qty > 0 /\ LiveOrders("entry") = {})
    => \E i \in LiveOrders("stop") : orders[i].qty - orders[i].filled = -qty

\* C20: whenever the position is invested, entryBarTime is set and is the time
\* at which the entry order of the held position was submitted.
C20_EntryTimeTracked ==
  Invested(qty) => (entryBarTime # NoTime /\ entryBarTime = entryAt)

=============================================================================
